---------------------------- MODULE Spec2Model ----------------------------
(***************************************************************************)
(* Model of functions_DOS.py: the density of states of a square lattice,   *)
(* as called by its driver scripts.                                        *)
(*                                                                         *)
(* Numbers.  A float is modelled by an exact rational <<n, d>> in lowest   *)
(* terms with d > 0; <<0, 0>> is NaN and <<1, 0>> is inf.  Rounding is not *)
(* modelled: every statement below is about exact arithmetic.              *)
(*                                                                         *)
(* Angles are measured in units of pi/6, so np.pi is the rational 6.       *)
(* np.cos and np.arccos are modelled by the piecewise-linear interpolant   *)
(* of the cosine through the five angles of [0, pi] at which it is         *)
(* rational (0, pi/3, pi/2, 2pi/3, pi): a strictly decreasing bijection    *)
(* of [0, pi] onto [-1, 1] with cos(pi - x) = -cos(x), and its inverse.    *)
(*                                                                         *)
(* A value of y_array is never negative and is stored as its square, so    *)
(* 1/np.sqrt(r) is stored as 1/r.                                          *)
(*                                                                         *)
(* integrate.simps is linear in the samples: its value is modelled by the  *)
(* formal sum of the terms (x, y) with y # 0, the empty sum being 0.       *)
(***************************************************************************)
EXTENDS Integers, Sequences, FiniteSets

(***************************************************************************)
(* Bounds of the model.                                                    *)
(***************************************************************************)
MaxNumPointsEnergy == 6
MaxNumPointsXi == 4
MaxBordParam == 2
MaxEnergy0 == 1
MaxBeta == 2
\* the parallel map is explored on smaller arguments
ParMaxNumPointsXi == 2
ParMaxBordParam == 1

NumPointsEnergyValues == 2..MaxNumPointsEnergy
NumPointsXiValues == 2..MaxNumPointsXi
BordParamValues == 0..MaxBordParam
Energy0Values == 0..MaxEnergy0
BetaValues == 1..MaxBeta
\* interval_energy: the band edge exactly (4) and beyond it (5, the drivers' value)
IntervalEnergyValues == {4, 5}

\* lattice_constant of the driver scripts
lattice_constant == 1

(***************************************************************************)
(* Exact rational arithmetic standing for float arithmetic.                *)
(***************************************************************************)
RECURSIVE GCD(_, _)
GCD(a, b) == IF b = 0 THEN a ELSE GCD(b, a % b)

Abs(i) == IF i < 0 THEN -i ELSE i

NaN == <<0, 0>>

Inf == <<1, 0>>

IsFinite(r) == r[2] # 0

Norm(n, d) ==
    IF d = 0 THEN (IF n = 0 THEN NaN ELSE Inf)
    ELSE LET g == GCD(Abs(n), Abs(d))
             s == IF d < 0 THEN -1 ELSE 1
         IN <<(s * n) \div g, (s * d) \div g>>

FromInt(i) == <<i, 1>>

Zero == <<0, 1>>

One == <<1, 1>>

RAdd(a, b) ==
    IF IsFinite(a) /\ IsFinite(b)
    THEN Norm(a[1] * b[2] + b[1] * a[2], a[2] * b[2]) ELSE NaN

RNeg(a) == IF IsFinite(a) THEN <<-a[1], a[2]>> ELSE NaN

RSub(a, b) == RAdd(a, RNeg(b))

RMul(a, b) ==
    IF IsFinite(a) /\ IsFinite(b)
    THEN Norm(a[1] * b[1], a[2] * b[2]) ELSE NaN

RDiv(a, b) ==
    IF IsFinite(a) /\ IsFinite(b)
    THEN Norm(a[1] * b[2], a[2] * b[1]) ELSE NaN

RAbs(a) == IF IsFinite(a) THEN <<Abs(a[1]), a[2]>> ELSE NaN

\* a comparison with NaN is False, as in Python
RLt(a, b) == IsFinite(a) /\ IsFinite(b) /\ a[1] * b[2] < b[1] * a[2]

RLe(a, b) == IsFinite(a) /\ IsFinite(b) /\ a[1] * b[2] <= b[1] * a[2]

RECURSIVE Pow(_, _)
Pow(b, e) == IF e = 0 THEN 1 ELSE b * Pow(b, e - 1)

(***************************************************************************)
(* numpy                                                                   *)
(***************************************************************************)
Pi == FromInt(6)

\* np.cos on [0, pi]
Cos(t) ==
    IF ~IsFinite(t) THEN NaN
    ELSE IF RLe(t, FromInt(2)) THEN RSub(One, RDiv(t, FromInt(4)))
    ELSE IF RLe(t, FromInt(4)) THEN RDiv(RSub(FromInt(3), t), FromInt(2))
    ELSE RDiv(RSub(FromInt(2), t), FromInt(4))

\* np.arccos: NaN outside [-1, 1]
ArcCos(v) ==
    IF ~(RLe(RNeg(One), v) /\ RLe(v, One)) THEN NaN
    ELSE IF RLe(<<1, 2>>, v) THEN RSub(FromInt(4), RMul(FromInt(4), v))
    ELSE IF RLe(<<-1, 2>>, v) THEN RSub(FromInt(3), RMul(FromInt(2), v))
    ELSE RSub(FromInt(2), RMul(FromInt(4), v))

\* np.linspace(start, stop, num)
Linspace(start, stop, num) ==
    [j \in 1..num |->
        IF num = 1 THEN start
        ELSE RAdd(start, RDiv(RMul(FromInt(j - 1), RSub(stop, start)),
                              FromInt(num - 1)))]

\* a[1:-1]
SliceInner(a) == SubSeq(a, 2, Len(a) - 1)

\* a[:-1]
SliceButLast(a) == SubSeq(a, 1, Len(a) - 1)

\* a[1:]
SliceButFirst(a) == SubSeq(a, 2, Len(a))

\* np.zeros_like(a)
ZerosLike(a) == [j \in 1..Len(a) |-> Zero]

\* the square of 1/np.sqrt(r): inf at r = 0, NaN for r < 0
InvSqrt(r) ==
    IF ~IsFinite(r) \/ r[1] < 0 THEN NaN
    ELSE IF r[1] = 0 THEN Inf
    ELSE RDiv(One, r)

\* a[i] for a Python index i (0-based, negative from the end), as a 1-based index
PyIndex(i, len) == (IF i < 0 THEN i + len ELSE i) + 1

\* integrate.simps(y, x): the formal sum of the samples with y # 0
Simps(y, x) ==
    SelectSeq([j \in 1..Len(x) |-> <<x[j], y[j]>>], LAMBDA p : p[2] # Zero)

(***************************************************************************)
(* functions_DOS.py                                                        *)
(***************************************************************************)
\* the argument of np.arccos in integral_lower_limit
LowerArg(energy, e0, b) ==
    RAdd(RDiv(RSub(e0, energy), RMul(FromInt(2), b)), One)

\* the argument of np.arccos in integral_upper_limit
UpperArg(energy, e0, b) ==
    RSub(RDiv(RSub(e0, energy), RMul(FromInt(2), b)), One)

\* the lower limit with the sign of the upper one: + 1 written as - 1
integral_lower_limit_minus(energy, e0, b) ==
    IF ~(RLe(e0, energy) /\ RLe(energy, RAdd(e0, RMul(FromInt(4), b))))
    THEN Zero
    ELSE ArcCos(UpperArg(energy, e0, b))

integral_lower_limit(energy, e0, b) ==
    IF ~(RLe(e0, energy) /\ RLe(energy, RAdd(e0, RMul(FromInt(4), b))))
    THEN Zero
    ELSE ArcCos(LowerArg(energy, e0, b))

integral_upper_limit(energy, e0, b) ==
    IF ~(RLe(RSub(e0, RMul(FromInt(4), b)), energy) /\ RLe(energy, e0))
    THEN Pi
    ELSE ArcCos(UpperArg(energy, e0, b))

\* one pass i of the border refinement of integrand_function
RefineXi(xi, lower, upper, num_points, i) ==
    LET step == RSub(upper, lower)
        width == RDiv(step, FromInt(Pow(num_points, i + 1)))
    IN Linspace(lower, RAdd(lower, width), num_points)
       \o SliceInner(xi)
       \o Linspace(RSub(upper, width), upper, num_points)

\* y_array created with np.ones_like in place of np.zeros_like
YInitOnes(xi) == [j \in 1..Len(xi) |-> One]

\* y_array = np.zeros_like(xi_array)
YInit(xi) == ZerosLike(xi)

\* np.abs((energy_0 - energy) / (4 * beta)) <= 1
InBand(energy, e0, b) ==
    RLe(RAbs(RDiv(RSub(e0, energy), RMul(FromInt(4), b))), One)

\* differ of the sample val
Differ(val, energy, e0, b) ==
    LET d == RSub(RDiv(RSub(e0, energy), RMul(FromInt(2), b)), Cos(val))
    IN RMul(d, d)

\* the test written differ <= 1
RegularOrOne(differ) == RLe(differ, One)

\* differ < 1
Regular(differ) == RLt(differ, One)

\* the index the carry-forward reads, for the 0-based sample index idx
PrevIndex(idx, len) == PyIndex(idx - 1, len)

\* the body of the loop over xi_array, for the 0-based sample index idx
EvalSample(y, xi, idx, energy, e0, b) ==
    LET differ == Differ(xi[idx + 1], energy, e0, b)
    IN IF Regular(differ)
       THEN [y EXCEPT ![idx + 1] = InvSqrt(RSub(One, differ))]
       ELSE [y EXCEPT ![idx + 1] = y[PrevIndex(idx, Len(y))]]

\* the energy array with the four segments left whole: no [:-1], no [1:]
EnergyArrayWhole(e0, b, num_points_energy, interval) ==
    LET num_points == (num_points_energy + 2) \div 2
        step == RMul(interval, b)
        near == RDiv(step, FromInt(num_points))
    IN Linspace(RSub(e0, step), e0, num_points)
       \o Linspace(RSub(e0, near), e0, num_points)
       \o Linspace(e0, RAdd(e0, near), num_points)
       \o Linspace(e0, RAdd(e0, step), num_points)

\* the energy array with the boundary kept once: the third segment whole
EnergyArrayShared(e0, b, num_points_energy, interval) ==
    LET num_points == (num_points_energy + 2) \div 2
        step == RMul(interval, b)
        near == RDiv(step, FromInt(num_points))
    IN SliceButLast(Linspace(RSub(e0, step), e0, num_points))
       \o SliceButLast(Linspace(RSub(e0, near), e0, num_points))
       \o Linspace(e0, RAdd(e0, near), num_points)
       \o SliceButFirst(Linspace(e0, RAdd(e0, step), num_points))

\* the energy array of gross_dos
EnergyArray(e0, b, num_points_energy, interval) ==
    LET num_points == (num_points_energy + 2) \div 2
        step == RMul(interval, b)
        near == RDiv(step, FromInt(num_points))
    IN SliceButLast(Linspace(RSub(e0, step), e0, num_points))
       \o SliceButLast(Linspace(RSub(e0, near), e0, num_points))
       \o SliceButFirst(Linspace(e0, RAdd(e0, near), num_points))
       \o SliceButFirst(Linspace(e0, RAdd(e0, step), num_points))

\* 1 / (lattice_constant ** 2 * beta * np.pi ** 2) * integrate.simps(y, x):
\* each term of the sum with the rational part of the prefactor
DosValue(y, x, b) ==
    LET coef == RDiv(One, RMul(FromInt(lattice_constant * lattice_constant), b))
        sum == Simps(y, x)
    IN [t \in 1..Len(sum) |-> <<coef, sum[t][1], sum[t][2]>>]

\* the float 0.0 of dos_array: the empty sum
ZeroDos == <<>>

\* dos_array = np.zeros_like(energy_array)
DosInit(energy) == [j \in 1..Len(energy) |-> ZeroDos]

\* the store with a carry-forward across iterations, as the one of y_array:
\* a zero value takes the value stored at idx - 1
StoreDosCarry(dos, idx, val) ==
    [dos EXCEPT ![idx] = IF val = <<>> /\ idx > 1 THEN dos[idx - 1] ELSE val]

\* dos_array[idx] = val
StoreDos(dos, idx, val) == [dos EXCEPT ![idx] = val]

\* the refinement loop of integrand_function from pass i on
RECURSIVE RefineFrom(_, _, _, _, _, _)
RefineFrom(xi, lower, upper, num_points, i, bp) ==
    IF i >= bp THEN xi
    ELSE RefineFrom(RefineXi(xi, lower, upper, num_points, i), lower, upper,
                    num_points, i + 1, bp)

\* the loop over xi_array from the 0-based sample index idx on
RECURSIVE EvalFrom(_, _, _, _, _, _)
EvalFrom(y, xi, idx, energy, e0, b) ==
    IF idx >= Len(xi) THEN y
    ELSE EvalFrom(EvalSample(y, xi, idx, energy, e0, b), xi, idx + 1, energy,
                  e0, b)

\* integrand_function as a whole: <<xi_array, y_array>>
integrand_function(energy, e0, b, num_points, bp) ==
    LET lower == integral_lower_limit(energy, e0, b)
        upper == integral_upper_limit(energy, e0, b)
        xi == RefineFrom(Linspace(lower, upper, num_points), lower, upper,
                         num_points, 0, bp)
    IN <<xi, IF InBand(energy, e0, b)
             THEN EvalFrom(YInit(xi), xi, 0, energy, e0, b)
             ELSE YInit(xi)>>

\* the body of the loop of gross_dos for the 1-based index j
LoopBody(dos, energy, j, e0, b, num_points, bp) ==
    LET r == integrand_function(energy[j], e0, b, num_points, bp)
    IN StoreDos(dos, j, DosValue(r[2], r[1], b))

\* the loop of gross_dos from the 1-based index j on, in the order of range()
RECURSIVE LoopFrom(_, _, _, _, _, _, _)
LoopFrom(dos, energy, j, e0, b, num_points, bp) ==
    IF j > Len(energy) THEN dos
    ELSE LoopFrom(LoopBody(dos, energy, j, e0, b, num_points, bp), energy,
                  j + 1, e0, b, num_points, bp)

(***************************************************************************)
(* State.                                                                  *)
(***************************************************************************)
VARIABLES
    driver,         \* "gross_dos": a script that calls gross_dos;
                    \* "plot": Integrand_function.py, which calls
                    \* integrand_function for each energy of its own array
    energy_0, beta, num_points_energy, num_points_xi, interval_energy,
    bord_param,     \* the arguments of gross_dos and integrand_function
    pc,             \* "call", "loop" or "return": where the driver is
    energy_array, dos_array,
    taken,          \* the indices of energy_array the loop has handed out
    frame           \* per thread: the locals of the loop body and of
                    \* integrand_function

args == <<driver, energy_0, beta, num_points_energy, num_points_xi,
          interval_energy, bord_param>>

vars == <<driver, energy_0, beta, num_points_energy, num_points_xi,
          interval_energy, bord_param, pc, energy_array, dos_array, taken, frame>>

\* the thread of the sequential program, and one more for a parallel map
Main == "main"

Threads == {"main", "worker"}

Idle ==
    [pc |-> "idle", idx |-> 0, energy_val |-> Zero, lower_limit |-> Zero,
     upper_limit |-> Zero, xi_array |-> <<>>, i |-> 0, y_array |-> <<>>,
     k |-> 0]

Init ==
    /\ driver \in {"gross_dos", "plot"}
    /\ energy_0 \in {FromInt(e) : e \in Energy0Values}
    /\ beta \in {FromInt(b) : b \in BetaValues}
    /\ num_points_energy \in NumPointsEnergyValues
    /\ num_points_xi \in NumPointsXiValues
    /\ interval_energy \in {FromInt(v) : v \in IntervalEnergyValues}
    /\ bord_param \in BordParamValues
    \* Integrand_function.py has no num_points_energy and no interval_energy
    /\ driver = "plot" =>
          num_points_energy = 2 /\ interval_energy = FromInt(4)
    /\ pc = "call"
    /\ energy_array = <<>>
    /\ dos_array = <<>>
    /\ taken = {}
    /\ frame = [t \in Threads |-> Idle]

\* gross_dos up to its loop: the energy and dos arrays
GrossDosCall ==
    /\ driver = "gross_dos"
    /\ pc = "call"
    /\ energy_array' = EnergyArray(energy_0, beta, num_points_energy,
                                   interval_energy)
    /\ dos_array' = DosInit(energy_array')
    /\ pc' = "loop"
    /\ UNCHANGED <<args, taken, frame>>

\* energy = np.linspace(-2, 2, 5) of Integrand_function.py
PlotEnergy == Linspace(FromInt(-2), FromInt(2), 5)

\* Integrand_function.py up to its loop; it keeps no dos array
PlotCall ==
    /\ driver = "plot"
    /\ pc = "call"
    /\ energy_array' = PlotEnergy
    /\ pc' = "loop"
    /\ UNCHANGED <<args, dos_array, taken, frame>>

\* one iteration of the loop starts: integrand_function is called and
\* computes the limits and the base grid
LoopNext(t, j) ==
    /\ pc = "loop"
    /\ frame[t].pc = "idle"
    /\ j \in (1..Len(energy_array)) \ taken
    /\ taken' = taken \cup {j}
    /\ LET e == energy_array[j]
           lower == integral_lower_limit(e, energy_0, beta)
           upper == integral_upper_limit(e, energy_0, beta)
       IN frame' = [frame EXCEPT ![t] =
              [pc |-> "refine", idx |-> j, energy_val |-> e,
               lower_limit |-> lower, upper_limit |-> upper,
               xi_array |-> Linspace(lower, upper, num_points_xi),
               i |-> 0, y_array |-> <<>>, k |-> 0]]
    /\ UNCHANGED <<args, pc, energy_array, dos_array>>

\* one pass of the refinement loop
RefinePass(t) ==
    /\ frame[t].pc = "refine"
    /\ frame[t].i < bord_param
    /\ frame' = [frame EXCEPT
           ![t].xi_array = RefineXi(frame[t].xi_array, frame[t].lower_limit,
                                    frame[t].upper_limit, num_points_xi,
                                    frame[t].i),
           ![t].i = frame[t].i + 1]
    /\ UNCHANGED <<args, pc, energy_array, dos_array, taken>>

\* the refinement loop ends: y_array is created and the band test is made
RefineEnd(t) ==
    /\ frame[t].pc = "refine"
    /\ frame[t].i = bord_param
    /\ frame' = [frame EXCEPT
           ![t].y_array = YInit(frame[t].xi_array),
           ![t].pc = IF InBand(frame[t].energy_val, energy_0, beta)
                     THEN "eval" ELSE "simps"]
    /\ UNCHANGED <<args, pc, energy_array, dos_array, taken>>

\* one iteration of the loop over xi_array
EvalStep(t) ==
    /\ frame[t].pc = "eval"
    /\ frame[t].k < Len(frame[t].xi_array)
    /\ frame' = [frame EXCEPT
           ![t].y_array = EvalSample(frame[t].y_array, frame[t].xi_array,
                                     frame[t].k, frame[t].energy_val,
                                     energy_0, beta),
           ![t].k = frame[t].k + 1,
           ![t].pc = IF frame[t].k + 1 = Len(frame[t].xi_array)
                     THEN "simps" ELSE "eval"]
    /\ UNCHANGED <<args, pc, energy_array, dos_array, taken>>

\* integrand_function has returned: the quadrature, and the store
LoopStore(t) ==
    /\ driver = "gross_dos"
    /\ frame[t].pc = "simps"
    /\ dos_array' = StoreDos(dos_array, frame[t].idx,
                             DosValue(frame[t].y_array, frame[t].xi_array,
                                      beta))
    /\ frame' = [frame EXCEPT ![t] = [frame[t] EXCEPT !.pc = "idle"]]
    /\ UNCHANGED <<args, pc, energy_array, taken>>

\* integrand_function has returned to Integrand_function.py, which plots
LoopPlot(t) ==
    /\ driver = "plot"
    /\ frame[t].pc = "simps"
    /\ frame' = [frame EXCEPT ![t] = [frame[t] EXCEPT !.pc = "idle"]]
    /\ UNCHANGED <<args, pc, energy_array, dos_array, taken>>

\* the loop is over
Return ==
    /\ pc = "loop"
    /\ taken = 1..Len(energy_array)
    /\ \A t \in Threads : frame[t].pc = "idle"
    /\ pc' = "return"
    /\ UNCHANGED <<args, energy_array, dos_array, taken, frame>>

\* the next index of range(len(energy_array))
NextIdx == Cardinality(taken) + 1

\* the for loop as written: one thread, ascending idx
SeqLoopNext == NextIdx <= Len(energy_array) /\ LoopNext(Main, NextIdx)

Next ==
    \/ GrossDosCall
    \/ PlotCall
    \/ SeqLoopNext
    \/ RefinePass(Main)
    \/ RefineEnd(Main)
    \/ EvalStep(Main)
    \/ LoopStore(Main)
    \/ LoopPlot(Main)
    \/ Return

Spec == Init /\ [][Next]_vars

\* the loop as a parallel map: any thread takes any index not yet taken
ParLoopNext == \E t \in Threads : \E j \in 1..Len(energy_array) : LoopNext(t, j)

ParRefinePass == \E t \in Threads : RefinePass(t)

ParRefineEnd == \E t \in Threads : RefineEnd(t)

ParEvalStep == \E t \in Threads : EvalStep(t)

ParLoopStore == \E t \in Threads : LoopStore(t)

NextPar ==
    \/ GrossDosCall
    \/ ParLoopNext
    \/ ParRefinePass
    \/ ParRefineEnd
    \/ ParEvalStep
    \/ ParLoopStore
    \/ Return

\* the parallel map is explored on the drivers' energy_0 = 0 and
\* interval_energy = 5, for beta = 1 and the shortest energy array
ParInit ==
    /\ Init
    /\ driver = "gross_dos"
    /\ energy_0 = Zero
    /\ beta = One
    /\ interval_energy = FromInt(5)
    /\ num_points_energy = 2
    /\ num_points_xi <= ParMaxNumPointsXi
    /\ bord_param <= ParMaxBordParam

SpecPar == ParInit /\ [][NextPar]_vars

(***************************************************************************)
(* Vocabulary of the properties.                                           *)
(***************************************************************************)
\* the iteration of index j is over: its dos value has been stored
Stored(j) ==
    /\ j \in taken
    /\ \A t \in Threads : frame[t].pc = "idle" \/ frame[t].idx # j

\* a thread is inside integrand_function, past the computation of the limits
Running(t) == frame[t].pc \in {"refine", "eval", "simps"}

\* y_array exists
Sampling(t) == frame[t].pc \in {"eval", "simps"}

FourBeta == RMul(FromInt(4), beta)

\* |energy - energy_0| > 4 * beta
OutOfBand(e) == RLt(FourBeta, RAbs(RSub(e, energy_0)))

\* energy strictly inside (energy_0, energy_0 + 4 beta)
UpperHalf(e) == RLt(energy_0, e) /\ RLt(e, RAdd(energy_0, FourBeta))

\* energy strictly inside (energy_0 - 4 beta, energy_0)
LowerHalf(e) == RLt(RSub(energy_0, FourBeta), e) /\ RLt(e, energy_0)

InUnit(v) == RLe(RNeg(One), v) /\ RLe(v, One)

NonDecreasing(a) == \A j \in 1..(Len(a) - 1) : RLe(a[j], a[j + 1])

StrictlyIncreasing(a) == \A j \in 1..(Len(a) - 1) : RLt(a[j], a[j + 1])

Reverse(a) == [j \in 1..Len(a) |-> a[Len(a) + 1 - j]]

\* what integrand_function returns for the energy e under the current arguments
Integrand(e) == integrand_function(e, energy_0, beta, num_points_xi, bord_param)

(***************************************************************************)
(* C1.  For every energy with |energy - energy_0| > 4 beta,                *)
(* integrand_function runs over the default domain [0, pi], skips the loop *)
(* over xi_array and returns a y_array of zeros; the dos value gross_dos   *)
(* stores for such an energy sample is exactly 0 (a finite number, not     *)
(* NaN).                                                                   *)
(***************************************************************************)
C1_OutOfBandIsZero ==
    /\ \A t \in Threads :
          (Sampling(t) /\ OutOfBand(frame[t].energy_val)) =>
              /\ frame[t].pc = "simps"
              /\ frame[t].lower_limit = Zero
              /\ frame[t].upper_limit = Pi
              /\ frame[t].xi_array[1] = Zero
              /\ frame[t].xi_array[Len(frame[t].xi_array)] = Pi
              /\ Len(frame[t].y_array) = Len(frame[t].xi_array)
              /\ \A j \in 1..Len(frame[t].y_array) : frame[t].y_array[j] = Zero
    /\ driver = "gross_dos" =>
          \A j \in 1..Len(dos_array) :
              (Stored(j) /\ OutOfBand(energy_array[j]))
                  => dos_array[j] = ZeroDos

\* an out-of-band sample below and one above the band have been stored, on a
\* refined grid
C1_Witness ==
    /\ driver = "gross_dos"
    /\ bord_param >= 1
    /\ \E j \in 1..Len(energy_array) :
          Stored(j) /\ RLt(energy_array[j], RSub(energy_0, FourBeta))
    /\ \E j \in 1..Len(energy_array) :
          Stored(j) /\ RLt(RAdd(energy_0, FourBeta), energy_array[j])

(***************************************************************************)
(* C3.  For every energy strictly inside (energy_0, energy_0 + 4 beta) or  *)
(* strictly inside (energy_0 - 4 beta, energy_0) the limits are numbers    *)
(* with 0 <= lower < upper <= pi, and the argument np.arccos is called     *)
(* with lies in [-1, 1].                                                   *)
(***************************************************************************)
C3_LimitsOrdered ==
    \A t \in Threads :
        (Running(t) /\ (UpperHalf(frame[t].energy_val)
                        \/ LowerHalf(frame[t].energy_val))) =>
            /\ IsFinite(frame[t].lower_limit)
            /\ IsFinite(frame[t].upper_limit)
            /\ RLe(Zero, frame[t].lower_limit)
            /\ RLt(frame[t].lower_limit, frame[t].upper_limit)
            /\ RLe(frame[t].upper_limit, Pi)
            /\ UpperHalf(frame[t].energy_val) =>
                   InUnit(LowerArg(frame[t].energy_val, energy_0, beta))
            /\ LowerHalf(frame[t].energy_val) =>
                   InUnit(UpperArg(frame[t].energy_val, energy_0, beta))

\* both branches of np.arccos have been taken: a lower limit above 0 and an
\* upper limit below pi
C3_Witness ==
    \E t \in Threads :
        /\ Running(t)
        /\ UpperHalf(frame[t].energy_val)
        /\ RLt(Zero, frame[t].lower_limit)
        /\ RLt(frame[t].lower_limit, Pi)
        /\ \E j \in 1..Len(energy_array) :
              /\ Stored(j)
              /\ LowerHalf(energy_array[j])
              /\ RLt(integral_upper_limit(energy_array[j], energy_0, beta), Pi)

(***************************************************************************)
(* C5.  The energy array gross_dos builds is non-decreasing over the four  *)
(* concatenated segments, its first element is energy_0 - interval_energy  *)
(* * beta and its last element is energy_0 + interval_energy * beta.       *)
(***************************************************************************)
C5_EnergyMonotone ==
    (driver = "gross_dos" /\ pc # "call") =>
        /\ Len(energy_array) >= 2
        /\ NonDecreasing(energy_array)
        /\ energy_array[1] = RSub(energy_0, RMul(interval_energy, beta))
        /\ energy_array[Len(energy_array)]
               = RAdd(energy_0, RMul(interval_energy, beta))

\* an array of four segments of several points each has been built
C5_Witness ==
    /\ driver = "gross_dos"
    /\ pc # "call"
    /\ num_points_energy >= 4
    /\ Len(energy_array) >= 8

(***************************************************************************)
(* C10.  When the first xi sample has differ >= 1, y[0] is exactly 0 (the  *)
(* carry-forward reads the last element of y, not yet written); at the     *)
(* band edges energy_0 + 4 beta and energy_0 - 4 beta the limits coincide  *)
(* and every sample is 0.                                                  *)
(***************************************************************************)
C10_FirstSampleZero ==
    \A t \in Threads :
        (Sampling(t) /\ InBand(frame[t].energy_val, energy_0, beta)) =>
            /\ (frame[t].k >= 1
                /\ ~Regular(Differ(frame[t].xi_array[1], frame[t].energy_val,
                                   energy_0, beta)))
               => frame[t].y_array[1] = Zero
            /\ (frame[t].pc = "simps"
                /\ RAbs(RSub(frame[t].energy_val, energy_0)) = FourBeta)
               => /\ frame[t].lower_limit = frame[t].upper_limit
                  /\ frame[t].k = Len(frame[t].xi_array)
                  /\ \A j \in 1..Len(frame[t].y_array) :
                        frame[t].y_array[j] = Zero

\* the loop has run over a refined grid at a band edge
C10_Witness ==
    \E t \in Threads :
        /\ frame[t].pc = "simps"
        /\ frame[t].energy_val = RAdd(energy_0, FourBeta)
        /\ bord_param >= 1
        /\ frame[t].k = Len(frame[t].xi_array)
        /\ frame[t].k >= 4
        /\ ~Regular(Differ(frame[t].xi_array[1], frame[t].energy_val,
                           energy_0, beta))

(***************************************************************************)
(* C7.  The iteration of index idx reads energy_array[idx] and the         *)
(* arguments only and writes dos_array[idx] only: with the iterations      *)
(* taken in any order by two threads and their steps interleaved, what a   *)
(* thread hands to the quadrature is what integrand_function returns for   *)
(* its own energy, every stored dos value is the one the sequential loop   *)
(* stores at that index, and every other element is still 0; when          *)
(* gross_dos returns, dos_array is the array of the sequential loop.       *)
(***************************************************************************)
C7_OrderIndependent ==
    (driver = "gross_dos" /\ pc # "call") =>
        LET seq == LoopFrom(DosInit(energy_array), energy_array, 1, energy_0,
                            beta, num_points_xi, bord_param)
        IN /\ Len(dos_array) = Len(energy_array)
           /\ \A j \in 1..Len(dos_array) :
                 dos_array[j] = IF Stored(j) THEN seq[j] ELSE ZeroDos
           /\ \A t \in Threads :
                 frame[t].pc = "simps" =>
                     <<frame[t].xi_array, frame[t].y_array>>
                         = Integrand(energy_array[frame[t].idx])
           /\ pc = "return" => dos_array = seq

\* a later index is already stored, with a non-zero value, while one thread
\* is inside the loop over xi_array of an earlier index and the other thread
\* is inside integrand_function for a third index
C7_Witness ==
    \E t \in Threads : \E u \in Threads \ {t} :
        /\ frame[t].pc = "eval" /\ frame[t].k >= 1
        /\ Running(u)
        /\ frame[u].idx # frame[t].idx
        /\ \E j \in 1..Len(energy_array) :
              /\ j > frame[t].idx
              /\ Stored(j)
              /\ dos_array[j] # ZeroDos

(***************************************************************************)
(* C2.  For 0 < |x| < 4 beta the limits, the xi grid and the integrand     *)
(* samples of energy_0 + x are the mirror images (xi -> pi - xi, order     *)
(* reversed) of those of energy_0 - x, the sample at the singular endpoint *)
(* included.                                                               *)
(***************************************************************************)
C2_MirrorSamples ==
    \A t \in Threads :
        (frame[t].pc = "simps"
         /\ (UpperHalf(frame[t].energy_val) \/ LowerHalf(frame[t].energy_val)))
        => LET x == RSub(frame[t].energy_val, energy_0)
               m == Integrand(RSub(energy_0, x))
           IN /\ Len(m[1]) = Len(frame[t].xi_array)
              /\ \A j \in 1..Len(m[1]) :
                    frame[t].xi_array[j] = RSub(Pi, m[1][Len(m[1]) + 1 - j])
              /\ frame[t].y_array = Reverse(m[2])

(***************************************************************************)
(* C4, as stated.  The energy array contains the value energy_0 exactly    *)
(* once.                                                                   *)
(***************************************************************************)
C4_Energy0Once ==
    (driver = "gross_dos" /\ pc # "call") =>
        Cardinality({j \in 1..Len(energy_array) : energy_array[j] = energy_0})
            = 1

(***************************************************************************)
(* C4, amended.  The energy array does not contain energy_0: each of the   *)
(* four segments is sliced so as to drop it.  With num_points =            *)
(* int((num_points_energy + 2) / 2) the array has 4 (num_points - 1)       *)
(* elements, the first half below energy_0 and the second half above it,   *)
(* the two nearest at step / (num_points (num_points - 1)) from it.        *)
(***************************************************************************)
C4_Energy0Absent ==
    (driver = "gross_dos" /\ pc # "call") =>
        LET num_points == (num_points_energy + 2) \div 2
            half == 2 * (num_points - 1)
            gap == RDiv(RMul(interval_energy, beta),
                        FromInt(num_points * (num_points - 1)))
        IN /\ Len(energy_array) = 2 * half
           /\ \A j \in 1..half : RLt(energy_array[j], energy_0)
           /\ \A j \in (half + 1)..(2 * half) : RLt(energy_0, energy_array[j])
           /\ energy_array[half] = RSub(energy_0, gap)
           /\ energy_array[half + 1] = RAdd(energy_0, gap)

\* an array whose dense segments hold several points has been built
C4_Witness ==
    /\ driver = "gross_dos"
    /\ pc # "call"
    /\ (num_points_energy + 2) \div 2 >= 3
    /\ \E j \in 1..(Len(energy_array) - 1) :
          RLt(energy_array[j], energy_0) /\ RLt(energy_0, energy_array[j + 1])

(***************************************************************************)
(* C6.  The energy array and the dos array have the same length, which is  *)
(* num_points_energy up to the rounding of num_points: one unit of         *)
(* num_points is four elements, so the two differ by at most four.         *)
(***************************************************************************)
C6_LengthIsNumPointsEnergy ==
    (driver = "gross_dos" /\ pc # "call") =>
        /\ Len(energy_array) = Len(dos_array)
        /\ Len(energy_array) - num_points_energy <= 4
        /\ num_points_energy - Len(energy_array) <= 4

(***************************************************************************)
(* C8.  For an in-band energy y has the length of xi; every sample with    *)
(* differ >= 1 has the value of the previous sample in grid order, which   *)
(* was computed before it; every sample with differ < 1 is                 *)
(* 1/sqrt(1 - differ); no sample is non-finite.  Stated for the energies   *)
(* strictly inside the band, where lower < upper.                          *)
(***************************************************************************)
C8_CarryForwardFromPrevious ==
    \A t \in Threads :
        (Sampling(t) /\ InBand(frame[t].energy_val, energy_0, beta)
         /\ ~(RAbs(RSub(frame[t].energy_val, energy_0)) = FourBeta)) =>
            /\ Len(frame[t].y_array) = Len(frame[t].xi_array)
            /\ \A j \in 1..frame[t].k :
                  LET differ == Differ(frame[t].xi_array[j],
                                       frame[t].energy_val, energy_0, beta)
                  IN /\ IsFinite(frame[t].y_array[j])
                     /\ RLt(differ, One) =>
                            frame[t].y_array[j] = InvSqrt(RSub(One, differ))
                     /\ ~RLt(differ, One) =>
                            /\ j - 1 >= 1
                            /\ frame[t].y_array[j] = frame[t].y_array[j - 1]

(***************************************************************************)
(* C9.  For lower < upper and num_points >= 2 the xi grid is strictly      *)
(* increasing, from lower to upper, after any number of refinement passes. *)
(***************************************************************************)
C9_XiStrictlyIncreasing ==
    \A t \in Threads :
        (Running(t) /\ RLt(frame[t].lower_limit, frame[t].upper_limit)
         /\ num_points_xi >= 2) =>
            /\ StrictlyIncreasing(frame[t].xi_array)
            /\ frame[t].xi_array[1] = frame[t].lower_limit
            /\ frame[t].xi_array[Len(frame[t].xi_array)] = frame[t].upper_limit

=============================================================================
